---- MODULE Spec2Model ----
(***************************************************************************)
(* Model of the scanner (tokenize) and the recursive-descent parser        *)
(* (class Parser) of src/src/parser.py, with the AST node set of           *)
(* src/src/astcollections.py.                                              *)
(*                                                                         *)
(* Text is a sequence of one-character strings; a token value is the       *)
(* sequence of its characters.  Cursors are 0-based as in the source, so   *)
(* source[i] of the code is src[i + 1] here.                               *)
(***************************************************************************)
EXTENDS Integers, Sequences, FiniteSets, TLC

VARIABLES
  source,       \* tokenize: the text being scanned
  i,            \* tokenize: cursor into source
  row,          \* tokenize: running row
  column,       \* tokenize: running column
  tokens,       \* tokenize: the tokens emitted so far
  lex_pc,       \* tokenize: "loop" | "returned" | "IndexError"
  self_tokens,  \* Parser.tokens
  self_i,       \* Parser.i
  stack,        \* activations of parse_function/parse_block in progress
  result_ast,   \* Parser.parse: result_ast
  pc,           \* Parser.parse: "parse" | "returned" | "raised" | "idle"
  result,       \* the value parse returned (NoneNode until then)
  err           \* the exception parse raised (NoErr until then)

vars == <<source, i, row, column, tokens, lex_pc,
          self_tokens, self_i, stack, result_ast, pc, result, err>>

lexVars == <<source, i, row, column, tokens, lex_pc>>
parseVars == <<self_tokens, self_i, stack, result_ast, pc, result, err>>

----------------------------------------------------------------------------
(* Bounds of the model *)

\* longest text enumerated character by character for the scanner
MaxLen == 4
\* largest number of program fragments concatenated for the parser
MaxPieces == 3

----------------------------------------------------------------------------
(* Characters *)

Letters == {"a", "b", "c", "d", "e", "f", "g", "h", "i", "j", "k", "l", "m",
            "n", "o", "p", "q", "r", "s", "t", "u", "v", "w", "x", "y", "z"}
Digits == {"0", "1", "2", "3", "4", "5", "6", "7", "8", "9"}

isspace(c) == c \in {" ", "\n"}
isalpha(c) == c \in Letters
isnumeric(c) == c \in Digits
isalnum(c) == isalpha(c) \/ isnumeric(c)

----------------------------------------------------------------------------
(* Parser constants and lexer configuration *)

FUNCTION_KEYWORD == <<"f", "u", "n", "c", "t", "i", "o", "n">>
DONE_KEYWORD == <<"d", "o", "n", "e">>
ASSIGN_OP == <<"=">>
COLON == <<":">>
LPAREN == <<"(">>
RPAREN == <<")">>
COMMA == <<",">>
SEMICOLON == <<";">>
EOF_VALUE == <<"E", "O", "F">>
RETURN_KEYWORD == <<"r", "e", "t", "u", "r", "n">>

keyword_map == {FUNCTION_KEYWORD, DONE_KEYWORD, RETURN_KEYWORD}
operator_map == {"="}
delimiter_map == {";", ":", "(", ")", ","}
data_type_map == {<<"i", "n", "t">>, <<"s", "t", "r", "i", "n", "g">>,
                  <<"b", "o", "o", "l">>, <<"v", "o", "i", "d">>}

----------------------------------------------------------------------------
(* Tokens *)

Position(coloums, r) == [coloums |-> coloums, row |-> r]

Token(token_type, value, position) ==
  [token_type |-> token_type, value |-> value, position |-> position]

----------------------------------------------------------------------------
(* tokenize: s is the record of its locals, [i, row, column, tokens, pc] *)

\* advance() with the column left running across a newline
advance_KeepColumn(src, s) ==
  IF s.pc # "loop" THEN s
  ELSE IF s.i >= Len(src) THEN [s EXCEPT !.pc = "IndexError"]
  ELSE IF src[s.i + 1] = "\n"
       THEN [s EXCEPT !.row = @ + 1, !.column = @ + 1, !.i = @ + 1]
       ELSE [s EXCEPT !.column = @ + 1, !.i = @ + 1]

\* advance() raises IndexError when it reads source[i] at the end of the text
advance(src, s) ==
  IF s.pc # "loop" THEN s
  ELSE IF s.i >= Len(src) THEN [s EXCEPT !.pc = "IndexError"]
  ELSE IF src[s.i + 1] = "\n"
       THEN [s EXCEPT !.row = @ + 1, !.column = 1, !.i = @ + 1]
       ELSE [s EXCEPT !.column = @ + 1, !.i = @ + 1]

\* while i < len(source) and c != '\n': advance()     (c is not re-read)
RECURSIVE CommentLoop(_, _, _)
CommentLoop(src, s, c) ==
  IF s.i < Len(src) /\ c # "\n" THEN CommentLoop(src, advance(src, s), c) ELSE s

\* while i < len(source) and (source[i].isalnum() or source[i] == '_')
RECURSIVE WordLoop(_, _)
WordLoop(src, s) ==
  IF s.i < Len(src) /\ (isalnum(src[s.i + 1]) \/ src[s.i + 1] = "_")
  THEN WordLoop(src, advance(src, s)) ELSE s

\* while i < len(source) and source[i].isnumeric()
RECURSIVE NumberLoop(_, _)
NumberLoop(src, s) ==
  IF s.i < Len(src) /\ isnumeric(src[s.i + 1])
  THEN NumberLoop(src, advance(src, s)) ELSE s

\* while i < len(source) and source[i] != '"'
RECURSIVE StringLoop(_, _)
StringLoop(src, s) ==
  IF s.i < Len(src) /\ src[s.i + 1] # "\""
  THEN StringLoop(src, advance(src, s)) ELSE s

WordType(word) ==
  IF word \in keyword_map THEN "Keyword"
  ELSE IF word \in data_type_map THEN "DataType"
  ELSE "Identifier"

\* tokens.append(t), reached only when nothing raised before it
Emit(s, t) == IF s.pc = "loop" THEN [s EXCEPT !.tokens = Append(@, t)] ELSE s

\* one iteration of the main loop of tokenize, entered with i < len(source)
LoopBody(src, s0) ==
  LET c == src[s0.i + 1]
      s == IF c = "#" THEN CommentLoop(src, s0, c) ELSE s0
      start == Position(s.column, s.row)
  IN IF isspace(c) THEN advance(src, s)
     ELSE IF isalpha(c) \/ c = "_" THEN
       LET e == WordLoop(src, s)
           word == SubSeq(src, s.i + 1, e.i)
       IN Emit(e, Token(WordType(word), word, start))
     ELSE IF isnumeric(c) THEN
       LET e == NumberLoop(src, s)
       IN Emit(e, Token("Number", SubSeq(src, s.i + 1, e.i), start))
     ELSE IF c \in operator_map THEN
       advance(src, Emit(s, Token("Operator", <<c>>, start)))
     ELSE IF c \in delimiter_map THEN
       advance(src, Emit(s, Token("Delimiter", <<c>>, start)))
     ELSE IF c = "\"" THEN
       LET b == advance(src, s)
           e == StringLoop(src, b)
           a == advance(src, e)
       IN Emit(a, Token("StringLiteral", SubSeq(src, b.i + 1, e.i), start))
     ELSE advance(src, s)

\* the code after the main loop: append the EOF token and return
LoopExit(s) ==
  [s EXCEPT !.tokens = Append(@, Token("EOF", EOF_VALUE, Position(s.column, s.row))),
            !.pc = "returned"]

LexStart == [i |-> 0, row |-> 1, column |-> 1, tokens |-> <<>>, pc |-> "loop"]

RECURSIVE TokenizeFrom(_, _)
TokenizeFrom(src, s) ==
  IF s.pc # "loop" THEN s
  ELSE IF s.i < Len(src) THEN TokenizeFrom(src, LoopBody(src, s))
  ELSE LoopExit(s)

\* tokenize(source), run to its end
tokenize(src) == TokenizeFrom(src, LexStart)

----------------------------------------------------------------------------
(* AST nodes: the classes src/src/astcollections.py defines *)

asts_classes == {"Node", "Statement", "Expression", "DataType", "Undefined",
                 "NumberLiteral", "StringLiteral", "Identifier",
                 "VariableDeclaration", "FunctionDeclaration", "Program"}

\* Python's None
NoneNode == [kind |-> "None"]

DataType(name) == [kind |-> "DataType", name |-> name]
NumberLiteral(value) == [kind |-> "NumberLiteral", value |-> value]
StringLiteral(value) == [kind |-> "StringLiteral", value |-> value]
Identifier(name) == [kind |-> "Identifier", name |-> name]
VariableDeclaration(name, type, value) ==
  [kind |-> "VariableDeclaration", name |-> name, type |-> type, value |-> value]
FunctionDeclaration(name, return_type, parameters, block) ==
  [kind |-> "FunctionDeclaration", name |-> name, return_type |-> return_type,
   parameters |-> parameters, block |-> block]
Program(statements) == [kind |-> "Program", statements |-> statements]

----------------------------------------------------------------------------
(* Exceptions *)

NoMessage == [text |-> "", arg |-> <<>>, line |-> 0, column |-> 0]
NoErr == [exc |-> "None", message |-> NoMessage]

\* f"{msg} on line {position.row}, column {position.coloums}"; msg is kept as
\* its fixed text and the token or name text interpolated into it
get_error_message(text, arg, position) ==
  [text |-> text, arg |-> arg, line |-> position.row, column |-> position.coloums]

Exception(message) == [exc |-> "Exception", message |-> message]

\* asts.<cls> where the module defines no such class
AttributeError(cls) ==
  [exc |-> "AttributeError",
   message |-> [text |-> cls, arg |-> <<>>, line |-> 0, column |-> 0]]

----------------------------------------------------------------------------
(* Parser: productions over (tokens, cursor).  A production returns         *)
(* [ok, i, node, err]: the cursor it leaves and the node it returns, or the *)
(* exception it raises.                                                     *)

Ok(k, node) == [ok |-> TRUE, i |-> k, node |-> node, err |-> NoErr]
Raise(k, e) == [ok |-> FALSE, i |-> k, node |-> NoneNode, err |-> e]

current_token(toks, k) == IF k < Len(toks) THEN toks[k + 1] ELSE toks[Len(toks)]

\* parse_expression that returns its node without consuming the token
parse_expression_NoConsume(toks, k) ==
  LET token == current_token(toks, k)
  IN CASE token.token_type = "Number" -> Ok(k, NumberLiteral(token.value))
       [] token.token_type = "StringLiteral" -> Ok(k, StringLiteral(token.value))
       [] token.token_type = "Identifier" -> Ok(k, Identifier(token.value))
       [] OTHER -> Raise(k, Exception(get_error_message("Unexpected token",
                                         token.value, token.position)))

parse_expression(toks, k) ==
  LET token == current_token(toks, k)
  IN CASE token.token_type = "Number" -> Ok(k + 1, NumberLiteral(token.value))
       [] token.token_type = "StringLiteral" -> Ok(k + 1, StringLiteral(token.value))
       [] token.token_type = "Identifier" -> Ok(k + 1, Identifier(token.value))
       [] OTHER -> Raise(k, Exception(get_error_message("Unexpected token",
                                         token.value, token.position)))

\* parse_variable that parses the initializer and then leaves it out of the node
parse_variable_DropInitializer(toks, k) ==
  IF current_token(toks, k).token_type # "DataType"
  THEN Raise(k, Exception(get_error_message("Expected data type for variable", <<>>,
                                            current_token(toks, k).position)))
  ELSE
  LET dtype == current_token(toks, k).value
      k1 == k + 1
  IN IF current_token(toks, k1).token_type # "Identifier"
     THEN Raise(k1, Exception(get_error_message("Expected variable name", <<>>,
                                                current_token(toks, k1).position)))
     ELSE
     LET name_token == current_token(toks, k1)
         k2 == k1 + 1
         e == IF current_token(toks, k2).value = ASSIGN_OP
              THEN parse_expression(toks, k2 + 1)
              ELSE Ok(k2, NoneNode)
     IN IF ~e.ok THEN e
        ELSE IF current_token(toks, e.i).value # SEMICOLON
        THEN Raise(e.i, Exception(get_error_message("Expected ';' after variable",
                              name_token.value, current_token(toks, e.i).position)))
        ELSE Ok(e.i + 1, VariableDeclaration(name_token.value, DataType(dtype), NoneNode))

parse_variable(toks, k) ==
  IF current_token(toks, k).token_type # "DataType"
  THEN Raise(k, Exception(get_error_message("Expected data type for variable", <<>>,
                                            current_token(toks, k).position)))
  ELSE
  LET dtype == current_token(toks, k).value
      k1 == k + 1
  IN IF current_token(toks, k1).token_type # "Identifier"
     THEN Raise(k1, Exception(get_error_message("Expected variable name", <<>>,
                                                current_token(toks, k1).position)))
     ELSE
     LET name_token == current_token(toks, k1)
         k2 == k1 + 1
         e == IF current_token(toks, k2).value = ASSIGN_OP
              THEN parse_expression(toks, k2 + 1)
              ELSE Ok(k2, NoneNode)
     IN IF ~e.ok THEN e
        ELSE IF current_token(toks, e.i).value # SEMICOLON
        THEN Raise(e.i, Exception(get_error_message("Expected ';' after variable",
                              name_token.value, current_token(toks, e.i).position)))
        ELSE Ok(e.i + 1, VariableDeclaration(name_token.value, DataType(dtype), e.node))

parse_parameter(toks, k) ==
  IF current_token(toks, k).token_type # "DataType"
  THEN Raise(k, Exception(get_error_message("Expected parameter type", <<>>,
                                            current_token(toks, k).position)))
  ELSE
  LET dtype == current_token(toks, k).value
      k1 == k + 1
  IN IF current_token(toks, k1).token_type # "Identifier"
     THEN Raise(k1, Exception(get_error_message("Expected parameter name", <<>>,
                                                current_token(toks, k1).position)))
     ELSE
     LET name == current_token(toks, k1).value
         k2 == k1 + 1
     IN IF "Parameter" \notin asts_classes
        THEN Raise(k2, AttributeError("Parameter"))
        ELSE Ok(k2, [kind |-> "Parameter", identifier |-> Identifier(name),
                     type |-> DataType(dtype)])

\* the while True loop of parse_function; param is the list built so far
RECURSIVE ParameterLoop(_, _, _)
ParameterLoop(toks, k, param) ==
  LET p == parse_parameter(toks, k)
  IN IF ~p.ok THEN p
     ELSE IF current_token(toks, p.i).value = COMMA
     THEN ParameterLoop(toks, p.i + 1, Append(param, p.node))
     ELSE Ok(p.i, Append(param, p.node))

\* the activation of parse_function that is waiting for its block
Frame(name, ret_type, param) ==
  [name |-> name, ret_type |-> ret_type, param |-> param, statements |-> <<>>]

\* parse_block up to its loop: the leading ':'
BlockOpen(toks, k, frame) ==
  IF current_token(toks, k).value # COLON
  THEN Raise(k, Exception(get_error_message("Expected ':' to start block", <<>>,
                                            current_token(toks, k).position)))
  ELSE Ok(k + 1, frame)

\* parse_function from the 'function' keyword to the call of parse_block,
\* and parse_block up to its loop
parse_function(toks, k) ==
  LET k1 == k + 1
  IN IF current_token(toks, k1).token_type # "DataType"
     THEN Raise(k1, Exception(get_error_message("Expected return type for function",
                                          <<>>, current_token(toks, k1).position)))
     ELSE
     LET ret_type == current_token(toks, k1).value
         k2 == k1 + 1
     IN IF current_token(toks, k2).token_type # "Identifier"
        THEN Raise(k2, Exception(get_error_message("Expected function name", <<>>,
                                                   current_token(toks, k2).position)))
        ELSE
        LET name == current_token(toks, k2).value
            k3 == k2 + 1
        IN IF current_token(toks, k3).value # LPAREN
           THEN Raise(k3, Exception(get_error_message("Expected '(' after function name",
                                          <<>>, current_token(toks, k3).position)))
           ELSE
           LET k4 == k3 + 1
               ps == IF current_token(toks, k4).value # RPAREN
                     THEN ParameterLoop(toks, k4, <<>>)
                     ELSE Ok(k4, <<>>)
           IN IF ~ps.ok THEN ps
              ELSE IF current_token(toks, ps.i).value # RPAREN
              THEN Raise(ps.i, Exception(get_error_message(
                              "Expected ')' after function parameters", <<>>,
                              current_token(toks, ps.i).position)))
              ELSE BlockOpen(toks, ps.i + 1, Frame(name, ret_type, ps.node))

\* the value parse_return builds: asts.Return(expr), asts.Return()
Return(k, expr) ==
  IF "Return" \notin asts_classes
  THEN Raise(k, AttributeError("Return"))
  ELSE Ok(k, [kind |-> "Return", value |-> expr])

parse_return(toks, k) ==
  LET k1 == k + 1
  IN IF current_token(toks, k1).value # SEMICOLON
     THEN LET e == parse_expression(toks, k1)
          IN IF ~e.ok THEN e
             ELSE IF current_token(toks, e.i).value # SEMICOLON
             THEN Raise(e.i, Exception(get_error_message(
                             "Expected ';' after return expression", <<>>,
                             current_token(toks, e.i).position)))
             ELSE Return(e.i + 1, e.node)
     ELSE Return(k1 + 1, NoneNode)

----------------------------------------------------------------------------
(* Inputs of the scanner specification *)

LexChars == {"a", "1", " ", "\n", "#", "\"", "=", ";", "@"}

Texts == UNION {[1..n -> LexChars] : n \in 0..MaxLen}

ParserIdle ==
  /\ self_tokens = <<>>
  /\ self_i = 0
  /\ stack = <<>>
  /\ result_ast = <<>>
  /\ pc = "idle"
  /\ result = NoneNode
  /\ err = NoErr

LexState == [i |-> i, row |-> row, column |-> column, tokens |-> tokens, pc |-> lex_pc]

SetLex(s) ==
  /\ i' = s.i
  /\ row' = s.row
  /\ column' = s.column
  /\ tokens' = s.tokens
  /\ lex_pc' = s.pc
  /\ UNCHANGED source

InitTokenize ==
  /\ source \in Texts
  /\ i = 0 /\ row = 1 /\ column = 1 /\ tokens = <<>> /\ lex_pc = "loop"
  /\ ParserIdle

TokenizeLoop ==
  /\ lex_pc = "loop"
  /\ i < Len(source)
  /\ SetLex(LoopBody(source, LexState))
  /\ UNCHANGED parseVars

TokenizeReturn ==
  /\ lex_pc = "loop"
  /\ i >= Len(source)
  /\ SetLex(LoopExit(LexState))
  /\ UNCHANGED parseVars

NextTokenize == TokenizeLoop \/ TokenizeReturn

SpecTokenize == InitTokenize /\ [][NextTokenize]_vars /\ WF_vars(NextTokenize)

----------------------------------------------------------------------------
(* Inputs of the parser specification: texts built from program fragments, *)
(* scanned by tokenize.  A fragment is a sequence of lexemes.              *)

\* int x ; | int x = 5 ; | int x = | function void f ( ) : |
\* function int g ( int a , bool b ) : | function void h ( ) : done | done |
\* return ; | return 5 ; | "done" | ";" | ; | x | int
Pieces == <<
   <<<<"i", "n", "t">>, <<"x">>, <<";">>>>,
   <<<<"i", "n", "t">>, <<"x">>, <<"=">>, <<"5">>, <<";">>>>,
   <<<<"i", "n", "t">>, <<"x">>, <<"=">>>>,
   <<<<"f", "u", "n", "c", "t", "i", "o", "n">>, <<"v", "o", "i", "d">>, <<"f">>, <<"(">>, <<")">>, <<":">>>>,
   <<<<"f", "u", "n", "c", "t", "i", "o", "n">>, <<"i", "n", "t">>, <<"g">>, <<"(">>, <<"i", "n", "t">>, <<"a">>, <<",">>, <<"b", "o", "o", "l">>, <<"b">>, <<")">>, <<":">>>>,
   <<<<"f", "u", "n", "c", "t", "i", "o", "n">>, <<"v", "o", "i", "d">>, <<"h">>, <<"(">>, <<")">>, <<":">>, <<"d", "o", "n", "e">>>>,
   <<<<"d", "o", "n", "e">>>>,
   <<<<"r", "e", "t", "u", "r", "n">>, <<";">>>>,
   <<<<"r", "e", "t", "u", "r", "n">>, <<"5">>, <<";">>>>,
   <<<<"\"", "d", "o", "n", "e", "\"">>>>,
   <<<<"\"", ";", "\"">>>>,
   <<<<";">>>>,
   <<<<"x">>>>,
   <<<<"i", "n", "t">>>>
>>

RECURSIVE JoinWith(_, _)
JoinWith(seqs, sep) ==
  IF Len(seqs) = 0 THEN <<>>
  ELSE IF Len(seqs) = 1 THEN seqs[1]
  ELSE seqs[1] \o sep \o JoinWith(Tail(seqs), sep)

\* lexemes of a fragment are separated by a space, fragments by a newline
PieceText(p) == JoinWith(Pieces[p], <<" ">>)
ProgramText(ps) == JoinWith([k \in 1..Len(ps) |-> PieceText(ps[k])], <<"\n">>)

Programs == UNION {[1..n -> 1..Len(Pieces)] : n \in 0..MaxPieces}

----------------------------------------------------------------------------
(* Parser.parse as a machine: one step per iteration of the loop of parse  *)
(* (stack empty) or of the loop of the innermost parse_block (stack        *)
(* non-empty).  The recursion parse_block -> parse_function -> parse_block *)
(* is the stack of frames.                                                 *)

InitParse ==
  /\ \E text \in {ProgramText(ps) : ps \in Programs} :
     \E lx \in {tokenize(text)} :
          /\ lx.pc = "returned"
          /\ source = text
          /\ i = lx.i /\ row = lx.row /\ column = lx.column
          /\ tokens = lx.tokens /\ lex_pc = lx.pc
          /\ self_tokens = lx.tokens
  /\ self_i = 0
  /\ stack = <<>>
  /\ result_ast = <<>>
  /\ pc = "parse"
  /\ result = NoneNode
  /\ err = NoErr

cur == current_token(self_tokens, self_i)

\* an exception leaves parse: nothing is returned
Raised(r) ==
  /\ pc' = "raised"
  /\ err' = r.err
  /\ self_i' = r.i
  /\ UNCHANGED <<stack, result_ast, result>>

\* statements.append(node) in the innermost block, result_ast.append(node) in parse
AppendStatement(stk, node) ==
  IF stk = <<>>
  THEN /\ result_ast' = Append(result_ast, node)
       /\ stack' = stk
  ELSE /\ stack' = [stk EXCEPT ![Len(stk)].statements = Append(@, node)]
       /\ UNCHANGED result_ast

\* a production that yields one statement of the current loop
Statement(r) ==
  IF r.ok
  THEN /\ self_i' = r.i
       /\ AppendStatement(stack, r.node)
       /\ UNCHANGED <<pc, result, err>>
  ELSE Raised(r)

\* parse_function called: on success its frame waits for the block's statements
EnterFunction(r) ==
  IF r.ok
  THEN /\ self_i' = r.i
       /\ stack' = Append(stack, r.node)
       /\ UNCHANGED <<result_ast, pc, result, err>>
  ELSE Raised(r)

\* parse: while self.current_token().token_type != TokenType.EOF
ParseVariable ==
  /\ pc = "parse" /\ stack = <<>>
  /\ cur.token_type = "DataType"
  /\ Statement(parse_variable(self_tokens, self_i))
  /\ UNCHANGED <<lexVars, self_tokens>>

ParseFunction ==
  /\ pc = "parse" /\ stack = <<>>
  /\ cur.token_type = "Keyword" /\ cur.value = FUNCTION_KEYWORD
  /\ EnterFunction(parse_function(self_tokens, self_i))
  /\ UNCHANGED <<lexVars, self_tokens>>

ParseSkip ==
  /\ pc = "parse" /\ stack = <<>>
  /\ cur.token_type \notin {"EOF", "DataType"}
  /\ ~(cur.token_type = "Keyword" /\ cur.value = FUNCTION_KEYWORD)
  /\ self_i' = self_i + 1
  /\ UNCHANGED <<lexVars, self_tokens, stack, result_ast, pc, result, err>>

ParseReturnProgram ==
  /\ pc = "parse" /\ stack = <<>>
  /\ cur.token_type = "EOF"
  /\ pc' = "returned"
  /\ result' = Program(result_ast)
  /\ UNCHANGED <<lexVars, self_tokens, self_i, stack, result_ast, err>>

\* parse_block: while self.current_token().value != DONE_KEYWORD
BlockVariable ==
  /\ pc = "parse" /\ stack # <<>>
  /\ cur.value # DONE_KEYWORD
  /\ cur.token_type = "DataType"
  /\ Statement(parse_variable(self_tokens, self_i))
  /\ UNCHANGED <<lexVars, self_tokens>>

BlockKeyword ==
  /\ pc = "parse" /\ stack # <<>>
  /\ cur.value # DONE_KEYWORD
  /\ cur.token_type = "Keyword"
  /\ IF cur.value = FUNCTION_KEYWORD
     THEN EnterFunction(parse_function(self_tokens, self_i))
     ELSE IF cur.value = RETURN_KEYWORD
     THEN Statement(parse_return(self_tokens, self_i))
     ELSE UNCHANGED parseVars
  /\ UNCHANGED <<lexVars, self_tokens>>

BlockExpression ==
  /\ pc = "parse" /\ stack # <<>>
  /\ cur.value # DONE_KEYWORD
  /\ cur.token_type \notin {"DataType", "Keyword"}
  /\ Statement(parse_expression(self_tokens, self_i))
  /\ UNCHANGED <<lexVars, self_tokens>>

\* the block loop ends: consume 'done', parse_block and parse_function return,
\* and the caller appends the FunctionDeclaration
BlockDone ==
  /\ pc = "parse" /\ stack # <<>>
  /\ cur.value = DONE_KEYWORD
  /\ LET f == stack[Len(stack)]
     IN AppendStatement(SubSeq(stack, 1, Len(stack) - 1),
                        FunctionDeclaration(f.name, DataType(f.ret_type),
                                            f.param, f.statements))
  /\ self_i' = self_i + 1
  /\ UNCHANGED <<lexVars, self_tokens, pc, result, err>>

NextParse ==
  \/ ParseVariable
  \/ ParseFunction
  \/ ParseSkip
  \/ ParseReturnProgram
  \/ BlockVariable
  \/ BlockKeyword
  \/ BlockExpression
  \/ BlockDone

\* parse is one synchronous call: it keeps running until it returns or raises
SpecParse == InitParse /\ [][NextParse]_vars /\ WF_vars(NextParse)

----------------------------------------------------------------------------
(* Properties of the scanner *)

IsEOF(t) == t.token_type = "EOF"

\* C1: for every text tokenize returns without raising, and the returned
\* sequence holds exactly one EOF token, its last element.
C1_TokenizeNeverRaises ==
  /\ lex_pc # "IndexError"
  /\ lex_pc = "returned" =>
       /\ Len(tokens) >= 1
       /\ \A k \in 1..Len(tokens) : IsEOF(tokens[k]) <=> k = Len(tokens)

\* text made only of whitespace and of '#' comments running to the end of line
RECURSIVE OnlyBlank(_, _, _)
OnlyBlank(src, k, inComment) ==
  IF k > Len(src) THEN TRUE
  ELSE IF inComment THEN OnlyBlank(src, k + 1, src[k] # "\n")
  ELSE IF src[k] = "#" THEN OnlyBlank(src, k + 1, TRUE)
  ELSE isspace(src[k]) /\ OnlyBlank(src, k + 1, FALSE)

\* C2: for a text of whitespace and '#' line comments only, tokenize returns
\* exactly one token, the EOF token.
C2_BlankTextYieldsOnlyEOF ==
  (OnlyBlank(source, 1, FALSE) /\ lex_pc # "loop") =>
     /\ lex_pc = "returned"
     /\ Len(tokens) = 1
     /\ IsEOF(tokens[1])

\* the 1-indexed (column, row) of the character after the first n characters
NewlinesBefore(src, n) == {k \in 1..n : src[k] = "\n"}
LastOf(S) == CHOOSE m \in S : \A k \in S : k <= m
PositionAt(src, n) ==
  LET nl == NewlinesBefore(src, n)
  IN Position(1 + n - (IF nl = {} THEN 0 ELSE LastOf(nl)), 1 + Cardinality(nl))

\* C3: every token tokenize emits carries the 1-indexed (column, row) of its
\* first character: row = 1 + newlines before it, column = 1 + characters
\* since the last newline (the EOF token: the position of the end of the text).
C3_TokenPositionIsFirstCharacter ==
  [][Len(tokens') > Len(tokens) =>
       /\ Len(tokens') = Len(tokens) + 1
       /\ tokens'[Len(tokens')].position = PositionAt(source, i)]_vars

\* C3 witness: a returned scan with a token on row 2, column 1, after a
\* first-row token (the shape of "ab\ncd")
C3_Witness ==
  /\ lex_pc = "returned"
  /\ Len(tokens) = 3
  /\ tokens[1].token_type = "Identifier" /\ tokens[1].position = Position(1, 1)
  /\ tokens[2].token_type = "Identifier" /\ tokens[2].position = Position(1, 2)

\* the text enclosed by the quote at 1-based index q: up to the next quote,
\* or to the end of the text when there is none
Enclosed(src, q) ==
  LET closing == {k \in (q + 1)..Len(src) : src[k] = "\""}
      last == IF closing = {} THEN Len(src)
              ELSE (CHOOSE m \in closing : \A k \in closing : m <= k) - 1
  IN SubSeq(src, q + 1, last)

\* C8: on a quote tokenize emits one StringLiteral token holding the enclosed
\* text, also when the string is unterminated at the end of input, without
\* any error (so the scan goes on to the EOF token).
C8_StringLiteralAlwaysEmitted ==
  [][(lex_pc = "loop" /\ i < Len(source) /\ source[i + 1] = "\"") =>
       /\ lex_pc' = "loop"
       /\ tokens' = Append(tokens, Token("StringLiteral", Enclosed(source, i + 1),
                                         Position(column, row)))]_vars

----------------------------------------------------------------------------
(* Properties of the parser *)

NTok == Len(self_tokens)
IsTok(k, type, value) ==
  /\ k <= NTok
  /\ self_tokens[k].token_type = type
  /\ self_tokens[k].value = value
HasType(k, type) == k <= NTok /\ self_tokens[k].token_type = type

ExpressionTypes == {"Number", "StringLiteral", "Identifier"}

\* the expression node the grammar assigns to an expression token
ExpressionNodeOf(t) ==
  CASE t.token_type = "Number" -> [kind |-> "NumberLiteral", value |-> t.value]
    [] t.token_type = "StringLiteral" -> [kind |-> "StringLiteral", value |-> t.value]
    [] t.token_type = "Identifier" -> [kind |-> "Identifier", name |-> t.value]

\* DataType(t) Identifier(n) Operator(=) E Delimiter(;) EOF
IsInitializedDeclaration ==
  /\ NTok = 6
  /\ HasType(1, "DataType") /\ HasType(2, "Identifier")
  /\ IsTok(3, "Operator", ASSIGN_OP)
  /\ self_tokens[4].token_type \in ExpressionTypes
  /\ IsTok(5, "Delimiter", SEMICOLON)
  /\ HasType(6, "EOF")

\* DataType(t) Identifier(n) Delimiter(;) EOF
IsPlainDeclaration ==
  /\ NTok = 4
  /\ HasType(1, "DataType") /\ HasType(2, "Identifier")
  /\ IsTok(3, "Delimiter", SEMICOLON)
  /\ HasType(4, "EOF")

ExpectedDeclaration(init) ==
  [kind |-> "Program",
   statements |-> << [kind |-> "VariableDeclaration",
                      name |-> self_tokens[2].value,
                      type |-> [kind |-> "DataType", name |-> self_tokens[1].value],
                      value |-> init] >>]

\* C4: for the tokens DataType(t) Identifier(n) [Operator(=) E] Delimiter(;)
\* EOF, parse returns a Program of exactly one VariableDeclaration(n,
\* DataType(t), init), init being the node of E, or None without `= E`.
C4_VariableDeclarationParsed ==
  /\ (IsInitializedDeclaration /\ pc # "parse") =>
        /\ pc = "returned"
        /\ result = ExpectedDeclaration(ExpressionNodeOf(self_tokens[4]))
  /\ (IsPlainDeclaration /\ pc # "parse") =>
        /\ pc = "returned"
        /\ result = ExpectedDeclaration(NoneNode)

\* C4 witness: `int x = 5 ;` parsed, the initializer being NumberLiteral("5")
C4_Witness ==
  /\ IsInitializedDeclaration
  /\ pc = "returned"
  /\ result.statements[1].value = [kind |-> "NumberLiteral", value |-> <<"5">>]

\* function T name ( T1 p1 , ... , Tn pn ) : done EOF
IsEmptyFunction(n) ==
  LET close == IF n = 0 THEN 5 ELSE 4 + 3 * n
  IN /\ NTok = close + 3
     /\ IsTok(1, "Keyword", FUNCTION_KEYWORD)
     /\ HasType(2, "DataType") /\ HasType(3, "Identifier")
     /\ IsTok(4, "Delimiter", LPAREN)
     /\ \A k \in 1..n : /\ HasType(2 + 3 * k, "DataType")
                        /\ HasType(3 + 3 * k, "Identifier")
                        /\ k < n => IsTok(4 + 3 * k, "Delimiter", COMMA)
     /\ IsTok(close, "Delimiter", RPAREN)
     /\ IsTok(close + 1, "Delimiter", COLON)
     /\ IsTok(close + 2, "Keyword", DONE_KEYWORD)
     /\ HasType(close + 3, "EOF")

ExpectedParameters(n) ==
  [k \in 1..n |->
     [kind |-> "Parameter",
      identifier |-> [kind |-> "Identifier", name |-> self_tokens[3 + 3 * k].value],
      type |-> [kind |-> "DataType", name |-> self_tokens[2 + 3 * k].value]]]

\* C5: for the tokens of `function T name ( T1 p1 , ... , Tn pn ) : done`,
\* n >= 0, parse returns Program([FunctionDeclaration(name, DataType(T),
\* params, [])]) with the n Parameter nodes in source order.
C5_FunctionDeclarationParsed ==
  \A n \in 0..NTok :
    (IsEmptyFunction(n) /\ pc # "parse") =>
       /\ pc = "returned"
       /\ result = [kind |-> "Program",
                    statements |-> << [kind |-> "FunctionDeclaration",
                       name |-> self_tokens[3].value,
                       return_type |-> [kind |-> "DataType",
                                        name |-> self_tokens[2].value],
                       parameters |-> ExpectedParameters(n),
                       block |-> <<>>] >>]

\* the block loop is at `return ;` (n = 0) or `return E ;` (n = 1)
AtReturn(n) ==
  /\ pc = "parse" /\ stack # <<>>
  /\ IsTok(self_i + 1, "Keyword", RETURN_KEYWORD)
  /\ n = 1 => /\ self_i + 2 <= NTok
              /\ self_tokens[self_i + 2].token_type \in ExpressionTypes
  /\ IsTok(self_i + 2 + n, "Delimiter", SEMICOLON)

\* C6: in a function body `return ;` is parsed into a Return node with no
\* expression and `return E ;` into a Return node wrapping the node of E; the
\* node is appended to the block's statements and parsing continues after `;`.
C6_ReturnParsed ==
  [][\A n \in {0, 1} :
       AtReturn(n) =>
         /\ pc' = "parse"
         /\ self_i' = self_i + 2 + n
         /\ stack' = [stack EXCEPT ![Len(stack)].statements =
               Append(@, [kind |-> "Return",
                          value |-> IF n = 0 THEN NoneNode
                                    ELSE ExpressionNodeOf(self_tokens[self_i + 2])])]
    ]_vars

\* DataType Identifier Operator(=) Delimiter(;) EOF, as for `int x = ;`
IsMissingInitializer ==
  /\ NTok = 5
  /\ HasType(1, "DataType") /\ HasType(2, "Identifier")
  /\ IsTok(3, "Operator", ASSIGN_OP)
  /\ IsTok(4, "Delimiter", SEMICOLON)
  /\ HasType(5, "EOF")

\* C7: whenever parse fails, the failure is a message "<description> on line
\* <row>, column <column>" with the position of the token that violated the
\* expectation, and no Program is returned; for `int x = ;` the message names
\* the unexpected `;` at that token's position.
C7_FailureCarriesPosition ==
  /\ pc = "raised" =>
       /\ err.exc = "Exception"
       /\ err.message.text # ""
       /\ err.message.line = cur.position.row
       /\ err.message.column = cur.position.coloums
       /\ result = NoneNode
  /\ (IsMissingInitializer /\ pc # "parse") =>
       /\ pc = "raised"
       /\ err.message.text = "Unexpected token"
       /\ err.message.arg = SEMICOLON
       /\ err.message.line = self_tokens[4].position.row
       /\ err.message.column = self_tokens[4].position.coloums

\* C9: parse halts, returning or failing; every iteration of the top-level
\* loop and of the block loop advances the cursor or fails, the cursor never
\* decreases, and it never passes the index of the EOF token.
C9_ParseHalts ==
  /\ [](self_i <= NTok - 1)
  /\ [][self_i' >= self_i]_vars
  /\ [][(pc = "parse" /\ pc' = "parse") => self_i' > self_i]_vars
  /\ <>(pc \in {"returned", "raised"})

\* C9 witness: a block left unterminated fails at the EOF token
C9_Witness ==
  /\ pc = "raised"
  /\ stack # <<>>
  /\ self_i = NTok - 1
  /\ cur.token_type = "EOF"

\* C10: `=`, `;`, `:`, `(`, `)`, `,` and `done` are accepted only from tokens of
\* kind Operator, Delimiter and Keyword: the token ending a block is a
\* Keyword, the token ending a variable declaration a Delimiter, its
\* assignment an Operator, and the tokens `(`, `)` `:` of a function
\* Delimiters (never a StringLiteral of the same text).
C10_PunctuationByKind ==
  [][/\ Len(stack') < Len(stack) => cur.token_type = "Keyword"
     /\ (pc = "parse" /\ pc' = "parse" /\ cur.token_type = "DataType") =>
          /\ self_tokens[self_i'].token_type = "Delimiter"
          /\ self_i' = self_i + 5 => self_tokens[self_i + 3].token_type = "Operator"
     /\ Len(stack') > Len(stack) =>
          /\ self_tokens[self_i + 4].token_type = "Delimiter"
          /\ self_tokens[self_i' - 1].token_type = "Delimiter"
          /\ self_tokens[self_i'].token_type = "Delimiter"
    ]_vars

====
